---- MODULE Spec2Model ----
(***************************************************************************)
(* The FTP and Samba backends of server/plugin/plg_backend_ftp_only:       *)
(* connection establishment through the keyed connection caches, the       *)
(* eviction callbacks, the backend operations that run against a cached    *)
(* session, the FTP recursive delete and the Samba path resolution.        *)
(***************************************************************************)
EXTENDS Integers, Sequences, FiniteSets, TLC

VARIABLES
    FtpCache,     \* set of <<key, session>>: the entries of FtpCache
    SambaCache,   \* set of <<key, session>>: the entries of SambaCache
    sess,         \* per session id: state, protocol, share table, history
    cleanup,      \* the last eviction callback run: its calls, those that failed, those logged
    pc,           \* per caller: position in Init / in a backend operation
    params,       \* per caller: the mapping handed to Init (FTP writes into it)
    own,          \* per caller: the session this Init call opened (0: none)
    ret,          \* per caller: what Init returned, and where it returned from
    op,           \* per caller: the backend operation in progress and its result
    rmTree,       \* the remote tree an Ftp.Rm works on: its files and directories
    rmPhase,      \* "setup" (the tree is being made), "run" (Rm is running), "done"
    rmArg,        \* the path Rm was called with
    rmStack,      \* the frames of the recursion, the running call last
    rmLog,        \* the protocol requests Rm has sent, each with what it returned
    rmRet,        \* what the outermost Rm returned
    rmFaults,     \* how many error objects the server side has injected
    spPath,       \* the path handed to Samba.toSambaPath
    spShare,      \* the names in the share table of the adapter
    spRes,        \* what toSambaPath returned
    runPhase,     \* "new", "ready" (Samba.Init has returned), "done" (an operation has)
    runSrv,       \* the server: the share names it enumerates, those it lets mount
    runShare,     \* the share table Samba.Init built
    runCall,      \* the operation called: its arguments and the library results
    runLog,       \* the requests the operation sent to the library, with results
    runRet,       \* what the operation returned
    pipeFile,     \* the bytes of the remote file an Ftp.Cat retrieves
    pipePhase,    \* "idle", "open" (Cat has returned the read side)
    pipeProd,     \* where the goroutine of Cat is
    pipeRetr,     \* what client.Retrieve returned
    pipeSent,     \* how many bytes Retrieve has written through the pipe
    pipeWr,       \* the write pending on the pipe: <<>> or one byte
    pipeRerr,     \* the error the read side was closed with
    pipeWerr,     \* the error the write side was closed with
    pipeWCloses,  \* how many times pw.Close() ran
    pipeCons,     \* the consumer: "reading", "eof", "error", "closed"
    pipePlan,     \* how many bytes the consumer reads before it closes; -1: all
    pipeGot,      \* the bytes the consumer's reads have returned
    pipeReadErr,  \* the error that ended the consumer's reading
    dfIn,         \* the mapping an Ftp.Init is called with, "conn" apart
    dfOut         \* what that Init dials with

lifeVars == <<FtpCache, SambaCache, sess, cleanup, pc, params, own, ret, op>>
rmVars == <<rmTree, rmPhase, rmArg, rmStack, rmLog, rmRet, rmFaults>>
spVars == <<spPath, spShare, spRes>>
runVars == <<runPhase, runSrv, runShare, runCall, runLog, runRet>>
pipeVars == <<pipeFile, pipePhase, pipeProd, pipeRetr, pipeSent, pipeWr, pipeRerr,
              pipeWerr, pipeWCloses, pipeCons, pipePlan, pipeGot, pipeReadErr>>
dfVars == <<dfIn, dfOut>>
vars == <<lifeVars, rmVars, spVars, runVars, pipeVars, dfVars>>

\* What the actions of one part leave alone.
notLife == <<rmVars, spVars, runVars, pipeVars, dfVars>>
notRm == <<lifeVars, spVars, runVars, pipeVars, dfVars>>
notSp == <<lifeVars, rmVars, runVars, pipeVars, dfVars>>
notRun == <<lifeVars, rmVars, spVars, pipeVars, dfVars>>
notPipe == <<lifeVars, rmVars, spVars, runVars, dfVars>>
notDf == <<lifeVars, rmVars, spVars, runVars, pipeVars>>

(***************************************************************************)
(* Bounds.                                                                 *)
(***************************************************************************)
NProcs == 2
MaxSessions == 2

Procs == 1..NProcs
Sids == 1..MaxSessions

(***************************************************************************)
(* Parameter mappings: map[string]string as a set of <<key, value>> pairs. *)
(* A missing key reads as "" (Go's zero value); a missing key and a key    *)
(* holding "" are different mappings, as they hash differently.            *)
(***************************************************************************)
Lookup(m, k) == IF \E e \in m : e[1] = k THEN (CHOOSE e \in m : e[1] = k)[2] ELSE ""

SetKey(m, k, v) == {e \in m : e[1] # k} \cup {<<k, v>>}

\* Lines 38-50 with the password default written whatever the username is.
FtpNormalizePasswordAlways(p) ==
    LET p1 == IF Lookup(p, "hostname") = "" THEN SetKey(p, "hostname", "localhost") ELSE p
        p2 == IF Lookup(p1, "port") = "" THEN SetKey(p1, "port", "21") ELSE p1
        p3 == IF Lookup(p2, "username") = "" THEN SetKey(p2, "username", "anonymous") ELSE p2
    IN  IF Lookup(p3, "password") = ""
        THEN SetKey(p3, "password", "anonymous")
        ELSE p3

\* Ftp.Init lines 38-50: the defaults written into the caller's mapping.
FtpNormalize(p) ==
    LET p1 == IF Lookup(p, "hostname") = "" THEN SetKey(p, "hostname", "localhost") ELSE p
        p2 == IF Lookup(p1, "port") = "" THEN SetKey(p1, "port", "21") ELSE p1
        p3 == IF Lookup(p2, "username") = "" THEN SetKey(p2, "username", "anonymous") ELSE p2
    IN  IF Lookup(p3, "username") = "anonymous" /\ Lookup(p3, "password") = ""
        THEN SetKey(p3, "password", "anonymous")
        ELSE p3

\* The mappings callers hand to Ftp.Init: one relying on every default and
\* one needing none.
FtpInputs ==
    { {},
      {<<"hostname", "h1">>, <<"port", "21">>,
       <<"username", "bob">>, <<"password", "pw">>} }

\* The mappings callers hand to Samba.Init.
SambaInputs ==
    { {<<"host", "h1">>} }

\* The share names the server enumerates; "C$" is an administrative share.
ShareNames == {"A", "C$"}

\* strings.HasSuffix(name, "$") on the names above.
HasDollarSuffix(name) == name = "C$"

(***************************************************************************)
(* AppCache: Get by key content, Set inserting or replacing, and the       *)
(* eviction callback run on every entry that leaves the cache.             *)
(***************************************************************************)
CacheGet(cache, key) ==
    IF \E e \in cache : e[1] = key THEN (CHOOSE e \in cache : e[1] = key)[2] ELSE 0

CacheReplaced(cache, key) == {e[2] : e \in {x \in cache : x[1] = key}}

CacheSet(cache, key, value) == {e \in cache : e[1] # key} \cup {<<key, value>>}

Cached(s) == (\E e \in FtpCache : e[2] = s) \/ (\E e \in SambaCache : e[2] = s)

(***************************************************************************)
(* The eviction callbacks (init, lines 27-30 and 247-257).  `fails` is the *)
(* set of cleanup calls that return an error.  A cleanup call is           *)
(* <<session, call, share>>.                                               *)
(***************************************************************************)
FtpCleanupCalls(s) == {<<s, "close", "">>}

SambaCleanupCalls(s) ==
    {<<s, "umount", n>> : n \in sess[s].share} \cup {<<s, "logoff", "">>}

CleanupCalls(s) ==
    IF sess[s].proto = "ftp" THEN FtpCleanupCalls(s) ELSE SambaCleanupCalls(s)

\* FtpCache.OnEvict: c.Close(), its error dropped.
FtpOnEvict(s, fails) ==
    [sid       |-> s,
     attempted |-> FtpCleanupCalls(s),
     failed    |-> fails,
     logged    |-> {}]

\* SambaCache.OnEvict: Umount of every share, then Logoff; each error logged.
SambaOnEvict(s, fails) ==
    [sid       |-> s,
     attempted |-> SambaCleanupCalls(s),
     failed    |-> fails,
     logged    |-> fails]

\* The callback on the entries in S (none or one) leaving a cache.
CleanupAfter(S, fails) ==
    IF S = {} THEN cleanup
    ELSE LET s == CHOOSE x \in S : TRUE
         IN  IF sess[s].proto = "ftp" THEN FtpOnEvict(s, fails)
             ELSE SambaOnEvict(s, fails)

\* The sessions after the eviction callback ran on those in S.
SessEvicted(ss, S) ==
    [s \in Sids |-> IF s \in S
                    THEN [ss[s] EXCEPT !.state = "closed", !.origin = {},
                                       !.evictions = @ + 1]
                    ELSE ss[s]]

\* The operations running on a session of S when it is closed: their
\* request in flight is interrupted, their later ones find it closed.
OpInterrupted(S) ==
    [p \in Procs |->
        IF op[p].state = "inflight" /\ ret[p].backend \in S
        THEN [op[p] EXCEPT !.raced = TRUE]
        ELSE op[p]]

FailChoices(S) == SUBSET (UNION {CleanupCalls(s) : s \in S})

(***************************************************************************)
(* Initial state: empty caches, no session, every caller idle.             *)
(***************************************************************************)
NoSession ==
    [state |-> "unused", proto |-> "", share |-> {}, origin |-> {},
     inserted |-> FALSE, evictions |-> 0]

NoRet == [proto |-> "", arg |-> {}, backend |-> 0, err |-> "", at |-> ""]

NoOp == [kind |-> "", state |-> "none", raced |-> FALSE, err |-> "", outs |-> <<>>,
         prod |-> "", rerr |-> "", werr |-> ""]

LifeInit ==
    /\ FtpCache = {}
    /\ SambaCache = {}
    /\ sess = [s \in Sids |-> NoSession]
    /\ cleanup = [sid |-> 0, attempted |-> {}, failed |-> {}, logged |-> {}]
    /\ pc = [p \in Procs |-> "idle"]
    /\ params = [p \in Procs |-> {}]
    /\ own = [p \in Procs |-> 0]
    /\ ret = [p \in Procs |-> NoRet]
    /\ op = [p \in Procs |-> NoOp]

Used == {s \in Sids : sess[s].state # "unused"}

\* Callers that missed the cache and have not opened their session yet.
Dialing == {p \in Procs : pc[p] \in {"ftpConnect", "smbConnect"}}

CanOpen == Cardinality(Used) + Cardinality(Dialing) < MaxSessions

FreeSid == CHOOSE s \in Sids : s \notin Used /\ \A t \in Sids : t < s => t \in Used

Call(proto, m) == [NoRet EXCEPT !.proto = proto, !.arg = m]

Returned(p, backend, err, at) ==
    ret' = [ret EXCEPT ![p] = [@ EXCEPT !.backend = backend, !.err = err, !.at = at]]

(***************************************************************************)
(* Ftp.Init, lines 33-78.                                                  *)
(***************************************************************************)
\* Lines 34-56: FtpCache.Get(params); on a miss the defaults are written
\* into the caller's mapping.
FtpInitGet(p, m) ==
    /\ pc[p] = "idle"
    /\ LET c == CacheGet(FtpCache, m)
       IN  IF c # 0
           THEN /\ pc' = [pc EXCEPT ![p] = "ready"]
                /\ params' = [params EXCEPT ![p] = m]
                /\ ret' = [ret EXCEPT ![p] =
                       [Call("ftp", m) EXCEPT !.backend = c, !.err = "nil", !.at = "hit"]]
           ELSE /\ CanOpen
                /\ pc' = [pc EXCEPT ![p] = "ftpConnect"]
                /\ params' = [params EXCEPT ![p] = FtpNormalize(m)]
                /\ ret' = [ret EXCEPT ![p] = Call("ftp", m)]
    /\ UNCHANGED <<FtpCache, SambaCache, sess, cleanup, own, op, notLife>>

\* Ftp.Init with FtpCache.Set moved before the ReadDir("/") probe: a failed
\* probe leaves the entry behind.
FtpInitConnectSetFirst(p, outcome) ==
    /\ pc[p] = "ftpConnect"
    /\ outcome \in {"dial", "verify", "ok"}
    /\ IF outcome = "dial"
       THEN /\ pc' = [pc EXCEPT ![p] = "failed"]
            /\ Returned(p, 0, "ErrDial", "dial")
            /\ UNCHANGED <<FtpCache, sess, own>>
       ELSE /\ own' = [own EXCEPT ![p] = FreeSid]
            /\ FtpCache' = CacheSet(FtpCache, params[p], FreeSid)
            /\ IF outcome = "verify"
               THEN /\ sess' = [sess EXCEPT ![FreeSid] =
                           [NoSession EXCEPT !.state = "closed", !.proto = "ftp"]]
                    /\ pc' = [pc EXCEPT ![p] = "failed"]
                    /\ Returned(p, 0, "ErrAuthenticationFailed", "verify")
               ELSE /\ sess' = [sess EXCEPT ![FreeSid] =
                           [NoSession EXCEPT !.state = "open", !.proto = "ftp",
                                             !.origin = ret[p].arg]]
                    /\ pc' = [pc EXCEPT ![p] = "ftpSet"]
                    /\ UNCHANGED ret
    /\ UNCHANGED <<SambaCache, cleanup, params, op, notLife>>

\* Lines 58-74, the network calls of Init, which touch nothing but the new
\* client.  goftp.DialConfig fails ("dial"): its error is returned.  It
\* succeeds and client.ReadDir("/") fails ("verify"): client.Close() and
\* ErrAuthenticationFailed.  Both succeed ("ok"): on to line 75.
FtpInitConnect(p, outcome) ==
    /\ pc[p] = "ftpConnect"
    /\ outcome \in {"dial", "verify", "ok"}
    /\ IF outcome = "dial"
       THEN /\ pc' = [pc EXCEPT ![p] = "failed"]
            /\ Returned(p, 0, "ErrDial", "dial")
            /\ UNCHANGED <<sess, own>>
       ELSE /\ own' = [own EXCEPT ![p] = FreeSid]
            /\ IF outcome = "verify"
               THEN /\ sess' = [sess EXCEPT ![FreeSid] =
                           [NoSession EXCEPT !.state = "closed", !.proto = "ftp"]]
                    /\ pc' = [pc EXCEPT ![p] = "failed"]
                    /\ Returned(p, 0, "ErrAuthenticationFailed", "verify")
               ELSE /\ sess' = [sess EXCEPT ![FreeSid] =
                           [NoSession EXCEPT !.state = "open", !.proto = "ftp",
                                             !.origin = ret[p].arg]]
                    /\ pc' = [pc EXCEPT ![p] = "ftpSet"]
                    /\ UNCHANGED ret
    /\ UNCHANGED <<FtpCache, SambaCache, cleanup, params, op, notLife>>

\* Lines 75-77: FtpCache.Set(params, backend) with the mapping as it now
\* is; an entry it replaces leaves the cache through the callback.
FtpInitSet(p, fails) ==
    /\ pc[p] = "ftpSet"
    /\ LET old == CacheReplaced(FtpCache, params[p])
       IN  /\ fails \in FailChoices(old)
           /\ FtpCache' = CacheSet(FtpCache, params[p], own[p])
           /\ sess' = [SessEvicted(sess, old) EXCEPT ![own[p]].inserted = TRUE]
           /\ cleanup' = CleanupAfter(old, fails)
           /\ op' = OpInterrupted(old)
    /\ pc' = [pc EXCEPT ![p] = "ready"]
    /\ Returned(p, own[p], "nil", "set")
    /\ UNCHANGED <<SambaCache, params, own, notLife>>

(***************************************************************************)
(* Samba.Init, lines 265-318.                                              *)
(***************************************************************************)
\* Lines 266-269: SambaCache.Get(params).
SambaInitGet(p, m) ==
    /\ pc[p] = "idle"
    /\ LET c == CacheGet(SambaCache, m)
       IN  IF c # 0
           THEN /\ pc' = [pc EXCEPT ![p] = "ready"]
                /\ ret' = [ret EXCEPT ![p] =
                       [Call("samba", m) EXCEPT !.backend = c, !.err = "nil", !.at = "hit"]]
           ELSE /\ CanOpen
                /\ pc' = [pc EXCEPT ![p] = "smbConnect"]
                /\ ret' = [ret EXCEPT ![p] = Call("samba", m)]
    /\ params' = [params EXCEPT ![p] = m]
    /\ UNCHANGED <<FtpCache, SambaCache, sess, cleanup, own, op, notLife>>

\* Lines 270-315, the network calls of Init, which touch nothing but the
\* new session.  net.DialTimeout fails ("dial") or the smb2 session setup
\* fails ("login"): the error is returned.  They succeed and
\* session.ListSharenames() fails ("verify"): its error is returned as it is
\* and the session is left as it is.  All succeed ("ok"): every name
\* without the "$" suffix is mounted, `mounted` being the names whose Mount
\* succeeds, and Init goes on to line 316.
SambaInitConnect(p, outcome, mounted) ==
    /\ pc[p] = "smbConnect"
    /\ outcome \in {"dial", "login", "verify", "ok"}
    /\ mounted \subseteq ShareNames
    /\ IF outcome \in {"dial", "login"}
       THEN /\ pc' = [pc EXCEPT ![p] = "failed"]
            /\ Returned(p, 0, IF outcome = "dial" THEN "ErrDial" ELSE "ErrLogin", outcome)
            /\ UNCHANGED <<sess, own>>
       ELSE /\ own' = [own EXCEPT ![p] = FreeSid]
            /\ IF outcome = "verify"
               THEN /\ sess' = [sess EXCEPT ![FreeSid] =
                           [NoSession EXCEPT !.state = "open", !.proto = "samba"]]
                    /\ pc' = [pc EXCEPT ![p] = "failed"]
                    /\ Returned(p, 0, "ErrListSharenames", "verify")
               ELSE /\ sess' = [sess EXCEPT ![FreeSid] =
                           [NoSession EXCEPT
                               !.state = "open", !.proto = "samba",
                               !.origin = ret[p].arg,
                               !.share = {n \in ShareNames :
                                            ~HasDollarSuffix(n) /\ n \in mounted}]]
                    /\ pc' = [pc EXCEPT ![p] = "smbSet"]
                    /\ UNCHANGED ret
    /\ UNCHANGED <<FtpCache, SambaCache, cleanup, params, op, notLife>>

\* Lines 316-317: SambaCache.Set(params, s).
SambaInitSet(p, fails) ==
    /\ pc[p] = "smbSet"
    /\ LET old == CacheReplaced(SambaCache, params[p])
       IN  /\ fails \in FailChoices(old)
           /\ SambaCache' = CacheSet(SambaCache, params[p], own[p])
           /\ sess' = [SessEvicted(sess, old) EXCEPT ![own[p]].inserted = TRUE]
           /\ cleanup' = CleanupAfter(old, fails)
           /\ op' = OpInterrupted(old)
    /\ pc' = [pc EXCEPT ![p] = "ready"]
    /\ Returned(p, own[p], "nil", "set")
    /\ UNCHANGED <<FtpCache, params, own, notLife>>

(***************************************************************************)
(* An entry leaves a cache (expiry, capacity or invalidation): the         *)
(* callback registered by init runs on its value, once.                    *)
(***************************************************************************)
FtpEvict(e, fails) ==
    /\ e \in FtpCache
    /\ fails \in FailChoices({e[2]})
    /\ FtpCache' = FtpCache \ {e}
    /\ sess' = SessEvicted(sess, {e[2]})
    /\ cleanup' = FtpOnEvict(e[2], fails)
    /\ op' = OpInterrupted({e[2]})
    /\ UNCHANGED <<SambaCache, pc, params, own, ret, notLife>>

SambaEvict(e, fails) ==
    /\ e \in SambaCache
    /\ fails \in FailChoices({e[2]})
    /\ SambaCache' = SambaCache \ {e}
    /\ sess' = SessEvicted(sess, {e[2]})
    /\ cleanup' = SambaOnEvict(e[2], fails)
    /\ op' = OpInterrupted({e[2]})
    /\ UNCHANGED <<FtpCache, pc, params, own, ret, notLife>>

(***************************************************************************)
(* Backend operations on the adapter Init returned.                        *)
(***************************************************************************)
\* What a protocol request can return: anything on a live session, a
\* transport error once the session has been closed.
LibErrors == {"nil", "ErrPermission", "ErrNotExist", "ErrOther"}

LibResult(s) == IF sess[s].state = "closed" THEN {"ErrClosed"} ELSE LibErrors

\* fromSambaErr, lines 479-488.
fromSambaErr(err) ==
    CASE err = "ErrPermission" -> "ErrPermissionDenied"
      [] err = "ErrNotExist"   -> "ErrNotFound"
      [] OTHER                 -> err

(***************************************************************************)
(* Ftp.Cat, lines 151-161: io.Pipe, and a goroutine that runs Retrieve     *)
(* into the write side, closes the read side with an error if Retrieve     *)
(* failed, and closes the write side.                                      *)
(***************************************************************************)
\* io.Pipe: the error a read returns once either side has been closed.
readCloseError(rerr, werr) ==
    IF rerr = "" /\ werr # "" THEN werr ELSE "ErrClosedPipe"

\* Lines 152-153, 160: the pipe is made, the goroutine started, pr returned.
CatStart(p) ==
    /\ pc[p] = "ready"
    /\ ret[p].proto = "ftp"
    /\ pc' = [pc EXCEPT ![p] = "cat"]
    /\ op' = [op EXCEPT ![p] =
           [NoOp EXCEPT !.kind = "cat", !.state = "inflight", !.prod = "retrieve"]]
    /\ UNCHANGED <<FtpCache, SambaCache, sess, cleanup, params, own, ret, notLife>>

\* Line 155: client.Retrieve(path, pw) returns `r`.
CatRetrieve(p, r) ==
    /\ pc[p] = "cat"
    /\ op[p].prod = "retrieve"
    /\ r \in LibResult(ret[p].backend)
    /\ op' = [op EXCEPT ![p] =
           [@ EXCEPT !.state = "drain",
                     !.prod = IF r = "nil" THEN "close" ELSE "closeErr"]]
    /\ UNCHANGED <<FtpCache, SambaCache, sess, cleanup, pc, params, own, ret, notLife>>

\* Line 156: pr.CloseWithError(NewError("Problem", 409)).
CatCloseWithError(p) ==
    /\ pc[p] = "cat"
    /\ op[p].prod = "closeErr"
    /\ op' = [op EXCEPT ![p] =
           [@ EXCEPT !.rerr = IF @ = "" THEN "Problem409" ELSE @,
                     !.prod = "close"]]
    /\ UNCHANGED <<FtpCache, SambaCache, sess, cleanup, pc, params, own, ret, notLife>>

\* Line 158: pw.Close().
CatClose(p) ==
    /\ pc[p] = "cat"
    /\ op[p].prod = "close"
    /\ op' = [op EXCEPT ![p] =
           [@ EXCEPT !.werr = IF @ = "" THEN "EOF" ELSE @,
                     !.prod = "exit"]]
    /\ UNCHANGED <<FtpCache, SambaCache, sess, cleanup, pc, params, own, ret, notLife>>

\* The consumer's read that finds the pipe closed: the end of its stream.
CatRead(p) ==
    /\ pc[p] = "cat"
    /\ op[p].state = "drain"
    /\ op[p].rerr # "" \/ op[p].werr # ""
    /\ op' = [op EXCEPT ![p] =
           [@ EXCEPT !.state = "returned",
                     !.err = readCloseError(op[p].rerr, op[p].werr)]]
    /\ UNCHANGED <<FtpCache, SambaCache, sess, cleanup, pc, params, own, ret, notLife>>

\* The goroutine has exited and the consumer has its result.
CatDone(p) ==
    /\ pc[p] = "cat"
    /\ op[p].prod = "exit"
    /\ op[p].state = "returned"
    /\ pc' = [pc EXCEPT ![p] = "ready"]
    /\ UNCHANGED <<FtpCache, SambaCache, sess, cleanup, params, own, ret, op, notLife>>

\* The caller is done with what Init returned.
Release(p) ==
    /\ pc[p] \in {"ready", "failed"}
    /\ pc' = [pc EXCEPT ![p] = "idle"]
    /\ params' = [params EXCEPT ![p] = {}]
    /\ own' = [own EXCEPT ![p] = 0]
    /\ ret' = [ret EXCEPT ![p] = NoRet]
    /\ op' = [op EXCEPT ![p] = NoOp]
    /\ UNCHANGED <<FtpCache, SambaCache, sess, cleanup, notLife>>

(***************************************************************************)
(* Ftp.Rm, lines 168-208, against a remote tree.  A path is a string, here *)
(* a sequence of characters; entry names are single characters.            *)
(***************************************************************************)
MaxDepth == 2
MaxNodes == 3
MaxFaults == 1

Names == {"a", "b"}

NilErr == [kind |-> "nil", code |-> 0]
FtpErr(c) == [kind |-> "ftp", code |-> c]
OtherErr == [kind |-> "other", code |-> 0]

\* Error objects the library hands back although the request took effect.
BenignFaults == {FtpErr(200), FtpErr(299)}

\* Errors of requests that did not take effect: a protocol code past the
\* success range, a goftp.Error without a protocol code, and an error of
\* another type.  (A request the server cannot do is refused with 550.)
FailingFaults == {FtpErr(300), FtpErr(0), OtherErr}

Faults == BenignFaults \cup FailingFaults

\* Lines 169-171: the path ends in "/".
isDirectory(p) == Len(p) > 0 /\ p[Len(p)] = "/"

\* transformError without the lower bound on the code.
transformErrorNoLowerBound(e) ==
    IF e = NilErr THEN NilErr
    ELSE IF e.kind = "ftp" /\ e.code < 300 THEN NilErr
    ELSE e

\* Lines 172-184: nil stays nil, a goftp.Error with 0 < Code() < 300
\* becomes nil, every other error is returned as it is.
transformError(e) ==
    IF e = NilErr THEN NilErr
    ELSE IF e.kind = "ftp" /\ e.code < 300 /\ e.code > 0 THEN NilErr
    ELSE e

\* The server: the node a path string names (its segments between "/").
Resolve(str) == SelectSeq(str, LAMBDA c : c # "/")

IsDirNode(tree, np) == np = <<>> \/ [path |-> np, dir |-> TRUE] \in tree

IsFileNode(tree, np) == [path |-> np, dir |-> FALSE] \in tree

Children(tree, np) ==
    {n \in tree : Len(n.path) = Len(np) + 1 /\ SubSeq(n.path, 1, Len(np)) = np}

Under(tree, np) ==
    {n \in tree : Len(n.path) >= Len(np) /\ SubSeq(n.path, 1, Len(np)) = np}

\* The listings ReadDir can return for a directory: its children as
\* (name, IsDir) entries, in any order.
Listings(tree, np) ==
    LET C == Children(tree, np)
        k == Cardinality(C)
    IN  {[i \in 1..k |-> [name |-> f[i].path[Len(f[i].path)], dir |-> f[i].dir]] :
            f \in {g \in [1..k -> C] : \A i, j \in 1..k : g[i] = g[j] => i = j}}

\* A new call of Rm(path): line 185 decides what its first request is.
Frame(path) ==
    [path |-> path, todo |-> <<>>, pc |-> IF isDirectory(path) THEN "list" ELSE "delete"]

Top(stack) == stack[Len(stack)]

Pop(stack) == SubSeq(stack, 1, Len(stack) - 1)

SetTop(stack, f) == [stack EXCEPT ![Len(stack)] = f]

\* The loop calling Rm on a directory entry without the trailing "/"
\* (line 192).
ContinueNoSlash(stack) ==
    LET f == Top(stack)
    IN  IF f.todo = <<>>
        THEN SetTop(stack, [f EXCEPT !.pc = "rmdir"])
        ELSE LET e == Head(f.todo)
                 child == f.path \o <<e.name>>
             IN  Append(SetTop(stack, [f EXCEPT !.todo = Tail(@), !.pc = "wait"]),
                        Frame(child))

\* Lines 190-203 up to the next request: the loop calls Rm on the next
\* entry (lines 192, 197), or has no entry left and goes on to Rmdir.
Continue(stack) ==
    LET f == Top(stack)
    IN  IF f.todo = <<>>
        THEN SetTop(stack, [f EXCEPT !.pc = "rmdir"])
        ELSE LET e == Head(f.todo)
                 child == f.path \o <<e.name>> \o (IF e.dir THEN <<"/">> ELSE <<>>)
             IN  Append(SetTop(stack, [f EXCEPT !.todo = Tail(@), !.pc = "wait"]),
                        Frame(child))

\* The loop without the checks of lines 193 and 198: it goes on with the
\* next entry whatever the child returned.
UnwindUnchecked(stack, e) ==
    IF stack = <<>>
    THEN [stack |-> <<>>, done |-> TRUE, ret |-> e]
    ELSE [stack |-> Continue(stack), done |-> FALSE, ret |-> NilErr]

\* A call returns `e` to the frames in `stack`: the outermost call returns
\* it to the caller of Rm; the loop of a calling frame returns it in turn
\* when transformError(e) is not nil (lines 193-195, 198-200) and goes on
\* otherwise.
RECURSIVE Unwind(_, _)
Unwind(stack, e) ==
    IF stack = <<>>
    THEN [stack |-> <<>>, done |-> TRUE, ret |-> e]
    ELSE IF transformError(e) # NilErr
         THEN Unwind(Pop(stack), e)
         ELSE [stack |-> Continue(stack), done |-> FALSE, ret |-> NilErr]

RmInit ==
    /\ rmTree = {}
    /\ rmPhase = "setup"
    /\ rmArg = <<>>
    /\ rmStack = <<>>
    /\ rmLog = <<>>
    /\ rmRet = NilErr
    /\ rmFaults = 0

\* Before Rm is called, the remote tree is made: a file or a directory is
\* created in an existing directory.
RmCreate(parent, name, dir) ==
    /\ rmPhase = "setup"
    /\ Cardinality(rmTree) < MaxNodes
    /\ Len(parent) < MaxDepth
    /\ IsDirNode(rmTree, parent)
    /\ \A n \in rmTree : n.path # Append(parent, name)
    /\ rmTree' = rmTree \cup {[path |-> Append(parent, name), dir |-> dir]}
    /\ UNCHANGED <<rmPhase, rmArg, rmStack, rmLog, rmRet, rmFaults, notRm>>

\* The path strings Rm is called with: "/" and, with and without a
\* trailing "/", every entry of the tree and every name in the root.
RECURSIVE Slashed(_)
Slashed(np) == IF np = <<>> THEN <<>> ELSE <<"/", Head(np)>> \o Slashed(Tail(np))

PathString(np, slash) ==
    IF np = <<>> THEN <<"/">>
    ELSE Slashed(np) \o (IF slash THEN <<"/">> ELSE <<>>)

RmTargets == {<<>>} \cup {n.path : n \in rmTree} \cup {<<x>> : x \in Names}

\* Rm(path) is called.
RmStart(np, slash) ==
    /\ rmPhase = "setup"
    /\ np \in RmTargets
    /\ rmPhase' = "run"
    /\ rmArg' = PathString(np, slash)
    /\ rmStack' = <<Frame(PathString(np, slash))>>
    /\ UNCHANGED <<rmTree, rmLog, rmRet, rmFaults, notRm>>

\* What a request returns: the server's refusal when it cannot be done,
\* else the injected error object, else nil.
Outcome(possible, inj) ==
    IF ~possible THEN FtpErr(550) ELSE IF inj \in Faults THEN inj ELSE NilErr

Injected(possible, inj) ==
    /\ inj \in Faults \cup {NilErr}
    /\ inj # NilErr => possible /\ rmFaults < MaxFaults
    /\ rmFaults' = IF inj # NilErr THEN rmFaults + 1 ELSE rmFaults

Logged(req, path, err) ==
    rmLog' = Append(rmLog, [req |-> req, path |-> path, err |-> err, entries |-> <<>>])

\* A ReadDir request, with the entries Rm got from it.
LoggedList(path, err, entries) ==
    rmLog' = Append(rmLog, [req |-> "list", path |-> path, err |-> err,
                            entries |-> entries])

Resume(r) ==
    /\ rmStack' = r.stack
    /\ rmPhase' = IF r.done THEN "done" ELSE "run"
    /\ rmRet' = r.ret

\* Lines 186-189: f.Ls(path); with an error that transformError keeps, Rm
\* returns that error; else the loop starts on the entries returned.
RmList(inj, listing) ==
    /\ rmPhase = "run"
    /\ Top(rmStack).pc = "list"
    /\ LET f == Top(rmStack)
           possible == IsDirNode(rmTree, Resolve(f.path))
           err == Outcome(possible, inj)
       IN  /\ Injected(possible, inj)
           /\ listing \in (IF possible THEN Listings(rmTree, Resolve(f.path)) ELSE {<<>>})
           /\ LoggedList(f.path, err, IF err = NilErr THEN listing ELSE <<>>)
           /\ IF transformError(err) # NilErr
              THEN Resume(Unwind(Pop(rmStack), err))
              ELSE Resume([stack |-> Continue(SetTop(rmStack,
                                       [f EXCEPT !.todo = IF err = NilErr THEN listing
                                                          ELSE <<>>])),
                           done |-> FALSE, ret |-> NilErr])
    /\ UNCHANGED <<rmTree, rmArg, notRm>>

\* Rm without line 203: the directory itself is not removed.
RmRmdirSkipped(inj) ==
    /\ rmPhase = "run"
    /\ Top(rmStack).pc = "rmdir"
    /\ inj = NilErr
    /\ Resume(Unwind(Pop(rmStack), NilErr))
    /\ UNCHANGED <<rmTree, rmArg, rmLog, rmFaults, notRm>>

\* Lines 203-204: f.client.Rmdir(path); Rm returns transformError(err).
RmRmdir(inj) ==
    /\ rmPhase = "run"
    /\ Top(rmStack).pc = "rmdir"
    /\ LET f == Top(rmStack)
           np == Resolve(f.path)
           possible == /\ [path |-> np, dir |-> TRUE] \in rmTree
                       /\ Children(rmTree, np) = {}
           err == Outcome(possible, inj)
       IN  /\ Injected(possible, inj)
           /\ Logged("rmdir", f.path, err)
           /\ rmTree' = IF possible /\ inj \notin FailingFaults
                        THEN rmTree \ {[path |-> np, dir |-> TRUE]}
                        ELSE rmTree
           /\ Resume(Unwind(Pop(rmStack), transformError(err)))
    /\ UNCHANGED <<rmArg, notRm>>

\* Lines 206-207: f.client.Delete(path); Rm returns transformError(err).
RmDelete(inj) ==
    /\ rmPhase = "run"
    /\ Top(rmStack).pc = "delete"
    /\ LET f == Top(rmStack)
           np == Resolve(f.path)
           possible == IsFileNode(rmTree, np)
           err == Outcome(possible, inj)
       IN  /\ Injected(possible, inj)
           /\ Logged("delete", f.path, err)
           /\ rmTree' = IF possible /\ inj \notin FailingFaults
                        THEN rmTree \ {[path |-> np, dir |-> FALSE]}
                        ELSE rmTree
           /\ Resume(Unwind(Pop(rmStack), transformError(err)))
    /\ UNCHANGED <<rmArg, notRm>>

\* The listings the server can return to the request Rm is about to send.
ListingChoices ==
    IF rmPhase = "run" /\ Top(rmStack).pc = "list"
    THEN Listings(rmTree, Resolve(Top(rmStack).path)) \cup {<<>>}
    ELSE {}

RmStep ==
    \/ \E inj \in Faults \cup {NilErr} : \E listing \in ListingChoices :
           RmList(inj, listing)
    \/ \E inj \in Faults \cup {NilErr} : RmRmdir(inj)
    \/ \E inj \in Faults \cup {NilErr} : RmDelete(inj)

NextRm ==
    \/ \E parent \in {<<>>} \cup {n.path : n \in rmTree}, name \in Names, dir \in BOOLEAN :
           RmCreate(parent, name, dir)
    \/ \E np \in RmTargets, slash \in BOOLEAN : RmStart(np, slash)
    \/ RmStep

(***************************************************************************)
(* Samba.toSambaPath, lines 466-477, on strings as character sequences.    *)
(***************************************************************************)
MaxPathLen == 5

PathChars == {"/", "\\", "a", "b"}

\* strings.TrimLeft(s, cutset) for a one-character cutset.
RECURSIVE TrimLeft(_, _)
TrimLeft(s, c) ==
    IF s # <<>> /\ Head(s) = c THEN TrimLeft(Tail(s), c) ELSE s

\* strings.TrimRight(s, cutset) for a one-character cutset.
RECURSIVE TrimRight(_, _)
TrimRight(s, c) ==
    IF s # <<>> /\ s[Len(s)] = c THEN TrimRight(SubSeq(s, 1, Len(s) - 1), c) ELSE s

\* strings.Trim(s, cutset) for a one-character cutset.
Trim(s, c) == TrimRight(TrimLeft(s, c), c)

\* strings.Split(s, sep) for a one-character sep: the pieces between the
\* separators; a string without separator, the empty string included,
\* gives one piece.
RECURSIVE Split(_, _)
Split(s, sep) ==
    IF \A i \in 1..Len(s) : s[i] # sep
    THEN <<s>>
    ELSE LET i == CHOOSE k \in 1..Len(s) : s[k] = sep /\ \A j \in 1..(k - 1) : s[j] # sep
         IN  <<SubSeq(s, 1, i - 1)>> \o Split(SubSeq(s, i + 1, Len(s)), sep)

\* strings.Join(elems, sep) for a one-character sep.
RECURSIVE Join(_, _)
Join(elems, sep) ==
    IF elems = <<>> THEN <<>>
    ELSE IF Len(elems) = 1 THEN elems[1]
    ELSE elems[1] \o <<sep>> \o Join(Tail(elems), sep)

\* toSambaPath with the remaining segments joined by "/" (line 472).
toSambaPathSlashJoined(share, path) ==
    LET p == Split(Trim(path, "/"), "/")
    IN  IF Len(p) = 0
        THEN [share |-> <<>>, path |-> <<>>, err |-> "ErrNotAllowed"]
        ELSE LET sharename == p[1]
                 oPath == TrimLeft(Join(Tail(p), "/"), "\\")
             IN  IF sharename \notin share
                 THEN [share |-> <<>>, path |-> <<>>, err |-> "ErrNotFound"]
                 ELSE [share |-> sharename, path |-> oPath, err |-> "nil"]

\* toSambaPath (lines 466-477); `share` holds the names of the share table.
toSambaPath(share, path) ==
    LET p == Split(Trim(path, "/"), "/")
    IN  IF Len(p) = 0
        THEN [share |-> <<>>, path |-> <<>>, err |-> "ErrNotAllowed"]
        ELSE LET sharename == p[1]
                 oPath == TrimLeft(Join(Tail(p), "\\"), "\\")
             IN  IF sharename \notin share
                 THEN [share |-> <<>>, path |-> <<>>, err |-> "ErrNotFound"]
                 ELSE [share |-> sharename, path |-> oPath, err |-> "nil"]

\* The share tables: the shares "a" and "ab", mounted or not.
ShareTables == SUBSET {<<"a">>, <<"a", "b">>}

Paths == UNION {[1..n -> PathChars] : n \in 0..MaxPathLen}

NoRes == [share |-> <<>>, path |-> <<>>, err |-> ""]

SpIdle ==
    /\ spPath = <<>>
    /\ spShare = {}
    /\ spRes = NoRes

\* A backend operation resolves its path.
SpResolve ==
    /\ spRes = NoRes
    /\ spRes' = toSambaPath(spShare, spPath)
    /\ UNCHANGED <<spPath, spShare, notSp>>

NextSp == SpResolve

(***************************************************************************)
(* The Samba operations (lines 371-464) and Ftp.Touch / Ftp.Save (lines    *)
(* 214-221) as runs: an operation is called with its arguments and with    *)
(* the results the library calls it makes will have, in call order.        *)
(***************************************************************************)
\* The share names the server enumerates, as character sequences.
RunShareNames == {<<"a">>, <<"a", "b">>, <<"c", "$">>}

\* strings.HasSuffix(name, "$"), line 309.
HasSuffixDollar(name) == name # <<>> /\ name[Len(name)] = "$"

\* Lines 308-315 with every share mounted, the administrative ones too.
MountTableUnfiltered(names, mounted) == {n \in names : n \in mounted}

\* Lines 308-315: every enumerated name without the "$" suffix whose Mount
\* succeeds is put into the table.
MountTable(names, mounted) ==
    {n \in names : ~HasSuffixDollar(n) /\ n \in mounted}

\* The paths operations are called with: "/", "", "a/x", "ab/x".
RunPaths == {<<"/">>, <<>>, <<"a", "/", "x">>, <<"a", "b", "/", "x">>}

\* The contents handed to Save: none, and one byte.
RunContents == {<<>>, <<"x">>}

\* The results of the first, second and third library call of a run.
RunOuts == [1..3 -> LibErrors]

Req(share, req, path, to, err) ==
    [share |-> share, req |-> req, path |-> path, to |-> to, err |-> err]

Run(log, err) == [log |-> log, ret |-> err]

\* Samba.Ls, lines 371-395.
SambaLs(table, path, outs) ==
    IF path = <<"/">> THEN Run(<<>>, "nil")
    ELSE LET r == toSambaPath(table, path)
         IN  IF r.err # "nil" THEN Run(<<>>, r.err)
             ELSE IF outs[1] # "nil"
             THEN Run(<<Req(r.share, "open", r.path, <<>>, outs[1])>>,
                      fromSambaErr(outs[1]))
             ELSE Run(<<Req(r.share, "open", r.path, <<>>, outs[1]),
                        Req(r.share, "readdir", r.path, <<>>, outs[2]),
                        Req(r.share, "close", r.path, <<>>, outs[3])>>,
                      fromSambaErr(outs[2]))

\* Samba.Cat, lines 397-405.
SambaCat(table, path, outs) ==
    LET r == toSambaPath(table, path)
    IN  IF r.err # "nil" THEN Run(<<>>, r.err)
        ELSE Run(<<Req(r.share, "open", r.path, <<>>, outs[1])>>, fromSambaErr(outs[1]))

\* Samba.Mkdir, lines 407-413.
SambaMkdir(table, path, outs) ==
    LET r == toSambaPath(table, path)
    IN  IF r.err # "nil" THEN Run(<<>>, r.err)
        ELSE Run(<<Req(r.share, "mkdir", r.path, <<>>, outs[1])>>, fromSambaErr(outs[1]))

\* Samba.Rm, lines 415-421.
SambaRm(table, path, outs) ==
    LET r == toSambaPath(table, path)
    IN  IF r.err # "nil" THEN Run(<<>>, r.err)
        ELSE Run(<<Req(r.share, "removeall", r.path, <<>>, outs[1])>>,
                 fromSambaErr(outs[1]))

\* Samba.Mv with the test of line 432 removed.
SambaMvAcrossShares(table, from, to, outs) ==
    LET f == toSambaPath(table, from)
        g == toSambaPath(table, to)
    IN  IF f.err # "nil" THEN Run(<<>>, f.err)
        ELSE IF g.err # "nil" THEN Run(<<>>, g.err)
        ELSE Run(<<Req(f.share, "rename", f.path, g.path, outs[1])>>,
                 fromSambaErr(outs[1]))

\* Samba.Mv, lines 423-436.
SambaMv(table, from, to, outs) ==
    LET f == toSambaPath(table, from)
        g == toSambaPath(table, to)
    IN  IF f.err # "nil" THEN Run(<<>>, f.err)
        ELSE IF g.err # "nil" THEN Run(<<>>, g.err)
        ELSE IF f.share # g.share THEN Run(<<>>, "ErrNotImplemented")
        ELSE Run(<<Req(f.share, "rename", f.path, g.path, outs[1])>>,
                 fromSambaErr(outs[1]))

\* Samba.Save, lines 438-452.  io.Copy sends a write when there is content.
SambaSave(table, path, content, outs) ==
    LET r == toSambaPath(table, path)
        create == Req(r.share, "create", r.path, <<>>, outs[1])
    IN  IF r.err # "nil" THEN Run(<<>>, r.err)
        ELSE IF outs[1] # "nil" THEN Run(<<create>>, fromSambaErr(outs[1]))
        ELSE IF content = <<>>
        THEN Run(<<create, Req(r.share, "close", r.path, <<>>, outs[2])>>, outs[2])
        ELSE IF outs[2] # "nil"
        THEN Run(<<create, Req(r.share, "write", r.path, <<>>, outs[2]),
                   Req(r.share, "close", r.path, <<>>, outs[3])>>,
                 fromSambaErr(outs[2]))
        ELSE Run(<<create, Req(r.share, "write", r.path, <<>>, outs[2]),
                   Req(r.share, "close", r.path, <<>>, outs[3])>>,
                 outs[3])

\* Samba.Touch, lines 454-464.
SambaTouch(table, path, outs) ==
    LET r == toSambaPath(table, path)
        create == Req(r.share, "create", r.path, <<>>, outs[1])
    IN  IF r.err # "nil" THEN Run(<<>>, r.err)
        ELSE IF outs[1] # "nil" THEN Run(<<create>>, fromSambaErr(outs[1]))
        ELSE Run(<<create, Req(r.share, "close", r.path, <<>>, outs[2])>>,
                 fromSambaErr(outs[2]))

\* Ftp.Save, lines 218-221: client.Store(path, file).
FtpSave(path, content, outs) ==
    Run(<<Req(<<>>, "store", path, content, outs[1])>>, outs[1])

\* Ftp.Touch, lines 214-216: client.Store(path, strings.NewReader("")).
FtpTouch(path, outs) ==
    Run(<<Req(<<>>, "store", path, <<>>, outs[1])>>, outs[1])

RunKinds == {"Samba.Ls", "Samba.Cat", "Samba.Mkdir", "Samba.Rm", "Samba.Mv",
             "Samba.Save", "Samba.Touch", "Ftp.Save", "Ftp.Touch"}

\* The run of the operation `c` against the share table `table`.
RunOf(table, c) ==
    CASE c.kind = "Samba.Ls"    -> SambaLs(table, c.path, c.outs)
      [] c.kind = "Samba.Cat"   -> SambaCat(table, c.path, c.outs)
      [] c.kind = "Samba.Mkdir" -> SambaMkdir(table, c.path, c.outs)
      [] c.kind = "Samba.Rm"    -> SambaRm(table, c.path, c.outs)
      [] c.kind = "Samba.Mv"    -> SambaMv(table, c.path, c.to, c.outs)
      [] c.kind = "Samba.Save"  -> SambaSave(table, c.path, c.content, c.outs)
      [] c.kind = "Samba.Touch" -> SambaTouch(table, c.path, c.outs)
      [] c.kind = "Ftp.Save"    -> FtpSave(c.path, c.content, c.outs)
      [] c.kind = "Ftp.Touch"   -> FtpTouch(c.path, c.outs)

NoCall == [kind |-> "", path |-> <<>>, to |-> <<>>, content |-> <<>>,
           outs |-> [i \in 1..3 |-> "nil"]]

NoSrv == [names |-> {}, mounted |-> {}]

RunIdle ==
    /\ runPhase = "new"
    /\ runSrv = NoSrv
    /\ runShare = {}
    /\ runCall = NoCall
    /\ runLog = <<>>
    /\ runRet = ""

\* Samba.Init, lines 304-317, once the session is set up: the names are
\* enumerated and the share table is built; `mounted` are the names the
\* server lets mount.
RunSambaInit(names, mounted) ==
    /\ runPhase = "new"
    /\ names \subseteq RunShareNames
    /\ mounted \subseteq RunShareNames
    /\ runPhase' = "ready"
    /\ runSrv' = [names |-> names, mounted |-> mounted]
    /\ runShare' = MountTable(names, mounted)
    /\ UNCHANGED <<runCall, runLog, runRet, notRun>>

\* An operation of the adapter runs from call to return.
RunCall(c) ==
    /\ runPhase = "ready"
    /\ c.kind \in RunKinds
    /\ runPhase' = "done"
    /\ runCall' = c
    /\ runLog' = RunOf(runShare, c).log
    /\ runRet' = RunOf(runShare, c).ret
    /\ UNCHANGED <<runSrv, runShare, notRun>>

\* The calls: an operation on one path, a rename, a write with content.
RunCalls ==
    {[NoCall EXCEPT !.kind = k, !.path = p, !.outs = o] :
        k \in RunKinds \ {"Samba.Mv", "Samba.Save", "Ftp.Save"},
        p \in RunPaths, o \in RunOuts}
    \cup {[NoCall EXCEPT !.kind = "Samba.Mv", !.path = p, !.to = q, !.outs = o] :
        p \in RunPaths, q \in RunPaths, o \in RunOuts}
    \cup {[NoCall EXCEPT !.kind = k, !.path = p, !.content = b, !.outs = o] :
        k \in {"Samba.Save", "Ftp.Save"}, p \in RunPaths, b \in RunContents,
        o \in RunOuts}

NextRun ==
    \/ \E names \in {RunShareNames, {<<"a">>, <<"c", "$">>}} :
          \E mounted \in SUBSET RunShareNames : RunSambaInit(names, mounted)
    \/ \E c \in RunCalls : RunCall(c)

(***************************************************************************)
(* The operations of an adapter that Init returned, request by request,    *)
(* while entries are evicted.  The session can be closed before, between   *)
(* and after the requests of one operation: nothing in the operations or   *)
(* in the callbacks (lines 23-31, 243-258) makes one wait for the other.   *)
(***************************************************************************)
\* Ftp.Ls, lines 147-149.
FtpLs(path, outs) ==
    Run(<<Req(<<>>, "readdir", path, <<>>, outs[1])>>, outs[1])

\* Ftp.Mkdir, lines 163-166.
FtpMkdir(path, outs) ==
    Run(<<Req(<<>>, "mkdir", path, <<>>, outs[1])>>, outs[1])

\* Ftp.Mv, lines 210-212.
FtpMv(from, to, outs) ==
    Run(<<Req(<<>>, "rename", from, to, outs[1])>>, outs[1])

\* The error object of a library result: a refusal by the server has the
\* protocol code 550, any other error is not a protocol error.
ErrObj(r) ==
    CASE r = "nil" -> NilErr
      [] r \in {"ErrPermission", "ErrNotExist"} -> FtpErr(550)
      [] OTHER -> OtherErr

\* Ftp.Rm, lines 168-208, on a file or on a directory that holds the one
\* file "f".
FtpRmFlat(path, outs) ==
    IF isDirectory(path)
    THEN LET list == Req(<<>>, "readdir", path, <<>>, outs[1])
             delete == Req(<<>>, "delete", path \o <<"f">>, <<>>, outs[2])
             rmdir == Req(<<>>, "rmdir", path, <<>>, outs[3])
         IN  IF transformError(ErrObj(outs[1])) # NilErr THEN Run(<<list>>, outs[1])
             ELSE IF transformError(ErrObj(outs[2])) # NilErr
             THEN Run(<<list, delete>>, outs[2])
             ELSE Run(<<list, delete, rmdir>>,
                      IF transformError(ErrObj(outs[3])) # NilErr THEN outs[3] ELSE "nil")
    ELSE Run(<<Req(<<>>, "delete", path, <<>>, outs[1])>>,
             IF transformError(ErrObj(outs[1])) # NilErr THEN outs[1] ELSE "nil")

\* The share table of the Samba adapters.
OpTable == {<<"a">>}

\* The operations of an adapter (Ftp.Cat has its goroutine, above).
OpKinds(proto) ==
    IF proto = "ftp"
    THEN {"Ftp.Ls", "Ftp.Mkdir", "Ftp.Rm", "Ftp.Mv", "Ftp.Touch", "Ftp.Save"}
    ELSE {"Samba.Ls", "Samba.Cat", "Samba.Mkdir", "Samba.Rm", "Samba.Mv",
          "Samba.Save", "Samba.Touch"}

\* The call of each operation: on "a/x" (Ftp.Rm: on the directory "a/"),
\* renaming to "a/y", writing one byte.
OpArgs(kind) ==
    [NoCall EXCEPT !.kind = kind,
                   !.path = IF kind = "Ftp.Rm" THEN <<"a", "/">> ELSE <<"a", "/", "x">>,
                   !.to = <<"a", "/", "y">>,
                   !.content = <<"x">>]

\* The run of the operation whose requests so far returned `outs`, the
\* later ones succeeding.
OpRun(kind, outs) ==
    LET c == [OpArgs(kind) EXCEPT
                 !.outs = [i \in 1..3 |-> IF i <= Len(outs) THEN outs[i] ELSE "nil"]]
    IN  CASE kind = "Ftp.Ls"    -> FtpLs(c.path, c.outs)
          [] kind = "Ftp.Mkdir" -> FtpMkdir(c.path, c.outs)
          [] kind = "Ftp.Rm"    -> FtpRmFlat(c.path, c.outs)
          [] kind = "Ftp.Mv"    -> FtpMv(c.path, c.to, c.outs)
          [] OTHER              -> RunOf(OpTable, c)

\* The operation returns once every request of its run has returned.
OpEnded(kind, outs) == Len(OpRun(kind, outs).log) <= Len(outs)

\* The operation after its requests so far returned `outs`; of an
\* operation that has returned, the caller has the result only.
OpAfter(o, kind, outs) ==
    IF OpEnded(kind, outs)
    THEN [o EXCEPT !.kind = "", !.state = "returned", !.outs = <<>>,
                   !.err = OpRun(kind, outs).ret]
    ELSE [o EXCEPT !.kind = kind, !.state = "inflight", !.outs = outs]

\* An operation is called on the adapter Init returned.
OpCall(p, kind) ==
    /\ pc[p] = "ready"
    /\ kind \in OpKinds(ret[p].proto)
    /\ op' = [op EXCEPT ![p] = OpAfter(NoOp, kind, <<>>)]
    /\ pc' = [pc EXCEPT ![p] = IF op'[p].state = "inflight" THEN "op" ELSE "ready"]
    /\ UNCHANGED <<FtpCache, SambaCache, sess, cleanup, params, own, ret, notLife>>

\* The next request of the operation returns `r`; after its last request
\* the operation returns to its caller.
OpRequest(p, r) ==
    /\ pc[p] = "op"
    /\ r \in LibResult(ret[p].backend)
    /\ op' = [op EXCEPT ![p] = OpAfter(@, @.kind, Append(@.outs, r))]
    /\ pc' = [pc EXCEPT ![p] = IF op'[p].state = "inflight" THEN "op" ELSE "ready"]
    /\ UNCHANGED <<FtpCache, SambaCache, sess, cleanup, params, own, ret, notLife>>

(***************************************************************************)
(* Ftp.Cat, lines 151-161, with the bytes that go through the pipe.  The   *)
(* pipe is io.Pipe: a write waits until a read has taken its bytes or a    *)
(* side has been closed; a read waits for a write or for a close.          *)
(***************************************************************************)
MaxFileLen == 2

Bytes == {"x", "y"}

Files == UNION {[1..n -> Bytes] : n \in 0..MaxFileLen}

\* io.Pipe: the error a write returns once either side has been closed.
writeCloseError(rerr, werr) ==
    IF werr = "" /\ rerr # "" THEN rerr ELSE "ErrClosedPipe"

PipeClosed == pipeRerr # "" \/ pipeWerr # ""

PipeIdle ==
    /\ pipeFile = <<>>
    /\ pipePhase = "idle"
    /\ pipeProd = ""
    /\ pipeRetr = ""
    /\ pipeSent = 0
    /\ pipeWr = <<>>
    /\ pipeRerr = ""
    /\ pipeWerr = ""
    /\ pipeWCloses = 0
    /\ pipeCons = ""
    /\ pipePlan = -1
    /\ pipeGot = <<>>
    /\ pipeReadErr = ""

\* Lines 152-153, 160: the pipe is made, the goroutine is started and the
\* read side is returned.  `file` is what the server holds at the path and
\* `plan` what the consumer will do with the stream.
PipeCat(file, plan) ==
    /\ pipePhase = "idle"
    /\ file \in Files
    /\ plan \in -1..Len(file)
    /\ pipePhase' = "open"
    /\ pipeFile' = file
    /\ pipePlan' = plan
    /\ pipeProd' = "retrieve"
    /\ pipeCons' = "reading"
    /\ UNCHANGED <<pipeRetr, pipeSent, pipeWr, pipeRerr, pipeWerr, pipeWCloses,
                   pipeGot, pipeReadErr, notPipe>>

\* Line 155, inside client.Retrieve(path, pw): the next byte of the file is
\* written to pw.  On a closed pipe the write returns an error at once and
\* Retrieve returns it.
PipeWrite ==
    /\ pipeProd = "retrieve"
    /\ pipeWr = <<>>
    /\ pipeSent < Len(pipeFile)
    /\ IF PipeClosed
       THEN /\ pipeRetr' = writeCloseError(pipeRerr, pipeWerr)
            /\ pipeProd' = "closeErr"
            /\ UNCHANGED pipeWr
       ELSE /\ pipeWr' = <<pipeFile[pipeSent + 1]>>
            /\ UNCHANGED <<pipeRetr, pipeProd>>
    /\ UNCHANGED <<pipeFile, pipePhase, pipeSent, pipeRerr, pipeWerr, pipeWCloses,
                   pipeCons, pipePlan, pipeGot, pipeReadErr, notPipe>>

\* The pending write finds the pipe closed: it returns an error and
\* Retrieve returns it.
PipeWriteAbort ==
    /\ pipeProd = "retrieve"
    /\ pipeWr # <<>>
    /\ PipeClosed
    /\ pipeWr' = <<>>
    /\ pipeRetr' = writeCloseError(pipeRerr, pipeWerr)
    /\ pipeProd' = "closeErr"
    /\ UNCHANGED <<pipeFile, pipePhase, pipeSent, pipeRerr, pipeWerr, pipeWCloses,
                   pipeCons, pipePlan, pipeGot, pipeReadErr, notPipe>>

\* Line 155: Retrieve returns an error of the transfer, before the first
\* byte or between two bytes.
PipeRetrieveFail ==
    /\ pipeProd = "retrieve"
    /\ pipeWr = <<>>
    /\ pipeRetr' = "ErrTransfer"
    /\ pipeProd' = "closeErr"
    /\ UNCHANGED <<pipeFile, pipePhase, pipeSent, pipeWr, pipeRerr, pipeWerr,
                   pipeWCloses, pipeCons, pipePlan, pipeGot, pipeReadErr, notPipe>>

\* Line 155: Retrieve returns nil, every byte written.
PipeRetrieveOk ==
    /\ pipeProd = "retrieve"
    /\ pipeWr = <<>>
    /\ pipeSent = Len(pipeFile)
    /\ pipeRetr' = "nil"
    /\ pipeProd' = "close"
    /\ UNCHANGED <<pipeFile, pipePhase, pipeSent, pipeWr, pipeRerr, pipeWerr,
                   pipeWCloses, pipeCons, pipePlan, pipeGot, pipeReadErr, notPipe>>

\* The goroutine without line 156.
PipeCloseWithErrorSkipped ==
    /\ pipeProd = "closeErr"
    /\ pipeProd' = "close"
    /\ UNCHANGED <<pipeFile, pipePhase, pipeRetr, pipeSent, pipeWr, pipeRerr, pipeWerr,
                   pipeWCloses, pipeCons, pipePlan, pipeGot, pipeReadErr, notPipe>>

\* The goroutine returning after line 156.
PipeCloseWithErrorReturns ==
    /\ pipeProd = "closeErr"
    /\ pipeRerr' = IF pipeRerr = "" THEN "Problem409" ELSE pipeRerr
    /\ pipeProd' = "exit"
    /\ UNCHANGED <<pipeFile, pipePhase, pipeRetr, pipeSent, pipeWr, pipeWerr,
                   pipeWCloses, pipeCons, pipePlan, pipeGot, pipeReadErr, notPipe>>

\* Line 156: pr.CloseWithError(NewError("Problem", 409)): the read side is
\* closed with the error, unless it was closed before.
PipeCloseWithError ==
    /\ pipeProd = "closeErr"
    /\ pipeRerr' = IF pipeRerr = "" THEN "Problem409" ELSE pipeRerr
    /\ pipeProd' = "close"
    /\ UNCHANGED <<pipeFile, pipePhase, pipeRetr, pipeSent, pipeWr, pipeWerr,
                   pipeWCloses, pipeCons, pipePlan, pipeGot, pipeReadErr, notPipe>>

\* Line 158: pw.Close(): the write side is closed with EOF, and the
\* goroutine returns.
PipeCloseWrite ==
    /\ pipeProd = "close"
    /\ pipeWerr' = IF pipeWerr = "" THEN "EOF" ELSE pipeWerr
    /\ pipeWCloses' = pipeWCloses + 1
    /\ pipeProd' = "exit"
    /\ UNCHANGED <<pipeFile, pipePhase, pipeRetr, pipeSent, pipeWr, pipeRerr,
                   pipeCons, pipePlan, pipeGot, pipeReadErr, notPipe>>

\* The consumer reads from the stream Cat returned: on a closed pipe the
\* read returns readCloseError, else it takes the byte of the pending write.
PipeRead ==
    /\ pipeCons = "reading"
    /\ pipePlan = -1 \/ Len(pipeGot) < pipePlan
    /\ PipeClosed \/ pipeWr # <<>>
    /\ IF PipeClosed
       THEN /\ pipeReadErr' = readCloseError(pipeRerr, pipeWerr)
            /\ pipeCons' = IF readCloseError(pipeRerr, pipeWerr) = "EOF"
                           THEN "eof" ELSE "error"
            /\ UNCHANGED <<pipeGot, pipeWr, pipeSent>>
       ELSE /\ pipeGot' = pipeGot \o pipeWr
            /\ pipeWr' = <<>>
            /\ pipeSent' = pipeSent + 1
            /\ UNCHANGED <<pipeReadErr, pipeCons>>
    /\ UNCHANGED <<pipeFile, pipePhase, pipeProd, pipeRetr, pipeRerr, pipeWerr,
                   pipeWCloses, pipePlan, notPipe>>

\* The consumer closes the stream before its end: pr.Close().
PipeCloseRead ==
    /\ pipeCons = "reading"
    /\ pipePlan = Len(pipeGot)
    /\ pipeRerr' = IF pipeRerr = "" THEN "ErrClosedPipe" ELSE pipeRerr
    /\ pipeCons' = "closed"
    /\ UNCHANGED <<pipeFile, pipePhase, pipeProd, pipeRetr, pipeSent, pipeWr, pipeWerr,
                   pipeWCloses, pipePlan, pipeGot, pipeReadErr, notPipe>>

\* The steps of the goroutine.
PipeProducer ==
    \/ PipeWrite
    \/ PipeWriteAbort
    \/ PipeRetrieveFail
    \/ PipeRetrieveOk
    \/ PipeCloseWithError
    \/ PipeCloseWrite

\* The steps of the consumer.
PipeConsumer == PipeRead \/ PipeCloseRead

NextPipe ==
    \/ \E file \in Files : \E plan \in -1..Len(file) : PipeCat(file, plan)
    \/ PipeProducer
    \/ PipeConsumer

(***************************************************************************)
(* Ftp.Init, lines 38-67: what the client is dialled with.  The value of   *)
(* "conn" is a character sequence, the other values are whole strings.     *)
(***************************************************************************)
MaxConnLen == 2

ConnChars == {"0", "1", "3", "-", "+", "a"}

Digits == {"0", "1", "2", "3", "4", "5", "6", "7", "8", "9"}

DigitVal(c) ==
    CASE c = "0" -> 0 [] c = "1" -> 1 [] c = "2" -> 2 [] c = "3" -> 3 [] c = "4" -> 4
      [] c = "5" -> 5 [] c = "6" -> 6 [] c = "7" -> 7 [] c = "8" -> 8 [] c = "9" -> 9

\* The number a string of digits spells.
RECURSIVE DecimalVal(_)
DecimalVal(s) ==
    IF s = <<>> THEN 0
    ELSE 10 * DecimalVal(SubSeq(s, 1, Len(s) - 1)) + DigitVal(s[Len(s)])

\* strconv.Atoi: an optional sign, then digits and nothing else.
Atoi(s) ==
    LET signed == s # <<>> /\ Head(s) \in {"+", "-"}
        d == IF signed THEN Tail(s) ELSE s
    IN  IF d = <<>> \/ \E i \in 1..Len(d) : d[i] \notin Digits
        THEN [ok |-> FALSE, val |-> 0]
        ELSE [ok |-> TRUE,
              val |-> IF signed /\ Head(s) = "-" THEN 0 - DecimalVal(d) ELSE DecimalVal(d)]

\* Lines 51-56: the connection count.
FtpConn(conn) ==
    IF conn # <<>> /\ Atoi(conn).ok /\ Atoi(conn).val > 0 THEN Atoi(conn).val ELSE 5

\* strings.TrimPrefix(hostname, "ftp://"), line 67, on the hostnames used.
TrimFtpPrefix(h) == IF h = "ftp://h1" THEN "h1" ELSE h

\* Lines 38-67: the address, the credentials and the connection count the
\* client is dialled with.
FtpDialArgs(in) ==
    LET p == FtpNormalize(in.params)
    IN  [host |-> TrimFtpPrefix(Lookup(p, "hostname")),
         port |-> Lookup(p, "port"),
         user |-> Lookup(p, "username"),
         password |-> Lookup(p, "password"),
         conn |-> FtpConn(in.conn)]

\* A key of the mapping: missing, or holding one of the values.
Field(k, values) == {{}} \cup {{<<k, v>>} : v \in values}

\* The mappings Init is called with.
DfInputs ==
    {[params |-> h \cup q \cup u \cup w, conn |-> c] :
        h \in Field("hostname", {"", "h1", "ftp://h1"}),
        q \in Field("port", {"", "2121"}),
        u \in Field("username", {"", "anonymous", "bob"}),
        w \in Field("password", {"", "pw"}),
        c \in UNION {[1..n -> ConnChars] : n \in 0..MaxConnLen}}

NoDial == [host |-> "", port |-> "", user |-> "", password |-> "", conn |-> 0]

DfIdle ==
    /\ dfIn = [params |-> {}, conn |-> <<>>]
    /\ dfOut = NoDial

\* Init reaches line 67 with the mapping it was called with.
DfDial ==
    /\ dfOut = NoDial
    /\ dfOut' = FtpDialArgs(dfIn)
    /\ UNCHANGED <<dfIn, notDf>>

NextDf == DfDial

Init == LifeInit /\ RmInit /\ SpIdle /\ RunIdle /\ PipeIdle /\ DfIdle

InitSp ==
    /\ LifeInit
    /\ RmInit
    /\ RunIdle
    /\ PipeIdle
    /\ DfIdle
    /\ spPath \in Paths
    /\ spShare \in ShareTables
    /\ spRes = NoRes

InitDf ==
    /\ LifeInit
    /\ RmInit
    /\ SpIdle
    /\ RunIdle
    /\ PipeIdle
    /\ dfIn \in DfInputs
    /\ dfOut = NoDial

SpecRm == Init /\ [][NextRm]_vars

SpecRmFair == Init /\ [][NextRm]_vars /\ WF_vars(RmStep)

SpecSp == InitSp /\ [][NextSp]_vars

SpecRun == Init /\ [][NextRun]_vars

SpecDf == InitDf /\ [][NextDf]_vars

SpecPipe == Init /\ [][NextPipe]_vars

\* The goroutine is scheduled, and the consumer goes on with its plan.
SpecPipeFair ==
    Init /\ [][NextPipe]_vars /\ WF_vars(PipeProducer) /\ WF_vars(PipeConsumer)

\* Connection establishment and eviction, with every outcome of the
\* network calls and of the cleanup calls.
Next ==
    \/ \E p \in Procs, m \in FtpInputs : FtpInitGet(p, m)
    \/ \E p \in Procs, outcome \in {"dial", "verify", "ok"} : FtpInitConnect(p, outcome)
    \/ \E p \in Procs : \E fails \in FailChoices(CacheReplaced(FtpCache, params[p])) :
           FtpInitSet(p, fails)
    \/ \E p \in Procs, m \in SambaInputs : SambaInitGet(p, m)
    \/ \E p \in Procs, outcome \in {"dial", "login", "verify"} :
           SambaInitConnect(p, outcome, {})
    \/ \E p \in Procs, mounted \in SUBSET {n \in ShareNames : ~HasDollarSuffix(n)} :
           SambaInitConnect(p, "ok", mounted)
    \/ \E p \in Procs : \E fails \in FailChoices(CacheReplaced(SambaCache, params[p])) :
           SambaInitSet(p, fails)
    \/ \E e \in FtpCache : \E fails \in FailChoices({e[2]}) : FtpEvict(e, fails)
    \/ \E e \in SambaCache : \E fails \in FailChoices({e[2]}) : SambaEvict(e, fails)
    \/ \E p \in Procs : Release(p)

Spec == Init /\ [][Next]_vars

\* Backend operations running while entries are evicted; the cleanup calls
\* themselves succeed and every share mounts.
NextOps ==
    \/ \E p \in Procs, m \in FtpInputs : FtpInitGet(p, m)
    \/ \E p \in Procs, outcome \in {"dial", "verify", "ok"} : FtpInitConnect(p, outcome)
    \/ \E p \in Procs : FtpInitSet(p, {})
    \/ \E p \in Procs, m \in SambaInputs : SambaInitGet(p, m)
    \/ \E p \in Procs, outcome \in {"dial", "login", "verify", "ok"} :
           SambaInitConnect(p, outcome, ShareNames)
    \/ \E p \in Procs : SambaInitSet(p, {})
    \/ \E e \in FtpCache : FtpEvict(e, {})
    \/ \E e \in SambaCache : SambaEvict(e, {})
    \/ \E p \in Procs, kind \in OpKinds("ftp") \cup OpKinds("samba") : OpCall(p, kind)
    \/ \E p \in Procs, r \in {"nil", "ErrPermission", "ErrClosed"} : OpRequest(p, r)
    \/ \E p \in Procs : CatStart(p)
    \/ \E p \in Procs, r \in {"nil", "ErrOther", "ErrClosed"} : CatRetrieve(p, r)
    \/ \E p \in Procs : CatCloseWithError(p)
    \/ \E p \in Procs : CatClose(p)
    \/ \E p \in Procs : CatRead(p)
    \/ \E p \in Procs : CatDone(p)
    \/ \E p \in Procs : Release(p)

SpecOps == Init /\ [][NextOps]_vars

(***************************************************************************)
(* Properties of connection establishment and eviction.                    *)
(***************************************************************************)
Cache(proto) == IF proto = "ftp" THEN FtpCache ELSE SambaCache

\* The live cache entries made by a successful Init that was handed `m`.
LiveFor(proto, m) ==
    {s \in Sids : sess[s].proto = proto /\ sess[s].origin = m
                  /\ \E e \in Cache(proto) : e[2] = s}

\* C1: once Init has succeeded with a mapping and its entry is still in the
\* cache, every Init call handed a mapping of the same content returns that
\* adapter at the lookup, without dialling; this for every mapping, those
\* that rely on defaults included.
C1_InitIdempotent ==
    [][\A p \in Procs :
          (pc[p] = "idle" /\ pc'[p] # "idle"
             /\ LiveFor(ret'[p].proto, ret'[p].arg) # {})
          => /\ pc'[p] = "ready"
             /\ ret'[p].at = "hit"
             /\ ret'[p].backend \in LiveFor(ret'[p].proto, ret'[p].arg)]_vars

Inserted == (FtpCache' \ FtpCache) \cup (SambaCache' \ SambaCache)

\* C2: an Init call that returns an error has inserted nothing: the step
\* that returns the error leaves both caches as they were, every entry is
\* inserted by the step that returns success with that adapter, and the
\* session a failed call opened is in no cache.
C2_FailedInitNotCached ==
    /\ [][\A p \in Procs :
             (pc[p] # "failed" /\ pc'[p] = "failed")
             => FtpCache' = FtpCache /\ SambaCache' = SambaCache]_vars
    /\ [][\A e \in Inserted :
             \E p \in Procs : /\ pc[p] # "ready" /\ pc'[p] = "ready"
                              /\ ret'[p].err = "nil" /\ ret'[p].backend = e[2]]_vars
    /\ [](\A p \in Procs :
             pc[p] = "failed"
             => /\ ret[p].err \notin {"", "nil"}
                /\ ret[p].backend = 0
                /\ own[p] # 0 => ~Cached(own[p]))

\* C2 witness: an FTP Init whose probe failed has returned, while the other
\* caller's entry is in the cache.
C2_Witness ==
    \E p \in Procs : /\ pc[p] = "failed" /\ ret[p].at = "verify"
                     /\ ret[p].proto = "ftp" /\ FtpCache # {}

\* C3: when dial and login succeeded and the verification listing failed,
\* the session that Init opened is closed when Init returns, and the error
\* is ErrAuthenticationFailed.
C3_FailedProbeClosesSession ==
    \A p \in Procs :
        (pc[p] = "failed" /\ ret[p].at = "verify")
        => /\ sess[own[p]].state = "closed"
           /\ ret[p].err = "ErrAuthenticationFailed"

\* A session nothing owns: opened, not closed, and in no cache.
Leaked(s) == sess[s].state = "open" /\ ~Cached(s)

\* C4: when two Init calls with equal mappings that both missed the cache
\* have returned, no session is left open outside the cache, among them the
\* ones the two callers opened or hold.
C4_NoLeakAfterRace ==
    \A p, q \in Procs :
        (/\ p # q
         /\ pc[p] \in {"ready", "failed"} /\ pc[q] \in {"ready", "failed"}
         /\ ret[p].proto = ret[q].proto /\ ret[p].arg = ret[q].arg
         /\ ret[p].at # "hit" /\ ret[q].at # "hit")
        => \A s \in Sids : ~Leaked(s)

\* C5: the callback runs exactly once on every entry that left a cache (and
\* on none that is still in it), and an operation that had requests to
\* make on the session when the callback closed it returns an error.
C5_EvictOnceAndOpsFail ==
    /\ \A s \in Sids :
          /\ sess[s].evictions <= 1
          /\ Cached(s) => sess[s].evictions = 0 /\ sess[s].state = "open"
          /\ (sess[s].inserted /\ ~Cached(s)) => sess[s].evictions = 1
    /\ \A p \in Procs :
          (op[p].state = "returned" /\ op[p].raced) => op[p].err \notin {"nil", "EOF"}

\* C6: in every run of an eviction callback, each cleanup call that failed
\* was logged, and every cleanup call of the session was made.
C6_CleanupLoggedAndComplete ==
    cleanup.sid # 0 =>
        /\ cleanup.failed \subseteq cleanup.logged
        /\ cleanup.attempted = CleanupCalls(cleanup.sid)

(***************************************************************************)
(* Properties of Ftp.Rm.                                                   *)
(***************************************************************************)
\* An error object whose protocol code is in the success range.
SuccessCode(e) == e.kind = "ftp" /\ e.code >= 200 /\ e.code <= 299

\* A failure: an error that carries no success code.
GenuineFailure(e) == e # NilErr /\ ~SuccessCode(e)

LastLog == rmLog[Len(rmLog)]

NoGenuineFailure == \A i \in 1..Len(rmLog) : ~GenuineFailure(rmLog[i].err)

\* C7: Rm on a path ending in "/" terminates, and when no request returned
\* a failure it returns nil and nothing is left at or under the path.
C7_RmRemovesTree ==
    /\ [](rmPhase = "done" /\ isDirectory(rmArg) /\ NoGenuineFailure
          => rmRet = NilErr /\ Under(rmTree, Resolve(rmArg)) = {})
    /\ (rmPhase = "run" ~> rmPhase = "done")

\* C7 witness: Rm has returned nil for a directory after listing a nested
\* directory, deleting a file, and getting an error object with a success
\* code on the way.
C7_Witness ==
    /\ rmPhase = "done" /\ isDirectory(rmArg) /\ NoGenuineFailure /\ rmRet = NilErr
    /\ \E i, j, k \in 1..Len(rmLog) :
          /\ rmLog[i].req = "list" /\ Len(rmLog[i].path) > Len(rmArg)
          /\ rmLog[j].req = "delete"
          /\ SuccessCode(rmLog[k].err)

\* C8: when Rm has returned, an error object with a success code was
\* neither returned nor the end of the deletion, and a failure (a failure
\* code, a goftp.Error without code, another error) ended the deletion and
\* is what Rm returned.
C8_RmErrorTolerance ==
    rmPhase = "done" =>
        /\ \A i \in 1..Len(rmLog) :
              GenuineFailure(rmLog[i].err) => i = Len(rmLog) /\ rmRet = rmLog[i].err
        /\ rmRet # NilErr => GenuineFailure(rmRet) /\ rmRet = LastLog.err
        /\ ~GenuineFailure(LastLog.err)
              => /\ rmRet = NilErr
                 /\ LastLog.path = rmArg
                 /\ LastLog.req \in {"rmdir", "delete"}

\* C8 witness: Rm went on after an error object with a success code and
\* later returned the failure of another request.
C8_Witness ==
    /\ rmPhase = "done"
    /\ \E i \in 1..(Len(rmLog) - 1) : SuccessCode(rmLog[i].err)
    /\ GenuineFailure(rmRet)

\* C9: once a request has returned a failure, Rm has returned and sends no
\* further request: the log and the remote tree stay as they are.
C9_RmAbortsAtFirstFailure ==
    /\ [](Len(rmLog) > 0 /\ GenuineFailure(LastLog.err) => rmPhase = "done")
    /\ [][Len(rmLog) > 0 /\ GenuineFailure(LastLog.err)
            => rmLog' = rmLog /\ rmTree' = rmTree]_vars

\* C9 witness: a failure two levels down, after a delete that succeeded,
\* with entries still on the server.
C9_Witness ==
    /\ rmPhase = "done"
    /\ GenuineFailure(LastLog.err)
    /\ Len(LastLog.path) > Len(rmArg) + 2
    /\ \E i \in 1..Len(rmLog) : rmLog[i].req = "delete" /\ rmLog[i].err = NilErr
    /\ rmTree # {}

(***************************************************************************)
(* Properties of Samba.toSambaPath.                                        *)
(***************************************************************************)
\* C10: resolving a path that is empty or made of "/" only returns
\* ErrNotAllowed, whatever the share table holds.
C10_EmptyPathNotAllowed ==
    (spRes # NoRes /\ Trim(spPath, "/") = <<>>) => spRes.err = "ErrNotAllowed"

\* The first segment of a string: what stands before its first "/".
FirstSegment(s) ==
    IF \E i \in 1..Len(s) : s[i] = "/"
    THEN SubSeq(s, 1, (CHOOSE i \in 1..Len(s) :
                          s[i] = "/" /\ \A j \in 1..(i - 1) : s[j] # "/") - 1)
    ELSE s

\* What follows the first segment and its "/", every "/" written as "\".
Remainder(s) ==
    LET r == SubSeq(s, Len(FirstSegment(s)) + 2, Len(s))
    IN  [i \in 1..Len(r) |-> IF r[i] = "/" THEN "\\" ELSE r[i]]

\* C11: for a path that is not empty once its leading and trailing "/" are
\* stripped: when its first segment is in the share table the result is
\* that share and the remaining segments joined by "\", without leading
\* "\" (the empty string when the path names only the share); when it is
\* not, the result is ErrNotFound and no share.
C11_NonEmptyPathResolved ==
    LET s == Trim(spPath, "/")
    IN  (spRes # NoRes /\ s # <<>>) =>
            IF FirstSegment(s) \in spShare
            THEN /\ spRes.err = "nil"
                 /\ spRes.share = FirstSegment(s)
                 /\ spRes.path = TrimLeft(Remainder(s), "\\")
                 /\ (spRes.path = <<>> \/ Head(spRes.path) # "\\")
                 /\ (FirstSegment(s) = s => spRes.path = <<>>)
            ELSE spRes.err = "ErrNotFound" /\ spRes.share = <<>>

\* C11 witness: "a/b/a" resolved against a table holding "a" gives the
\* remainder b\a.
C11_Witness ==
    /\ spRes.err = "nil"
    /\ spRes.share = <<"a">>
    /\ spPath = <<"a", "/", "b", "/", "a">>
    /\ spRes.path = <<"b", "\\", "a">>

(***************************************************************************)
(* Properties of the Samba operations and of Touch / Save.                 *)
(***************************************************************************)
\* The requests of the run that change the remote state.
Mutating == {i \in 1..Len(runLog) :
                runLog[i].req \in {"rename", "create", "write", "mkdir", "removeall"}}

\* C12: a rename whose two paths resolve to two different shares of the
\* table returns ErrNotImplemented and sends no request at all; a rename
\* request is sent only when both paths resolve to one share, and then to
\* that share with the two resolved paths.
C12_MvAcrossSharesRejected ==
    (runPhase = "done" /\ runCall.kind = "Samba.Mv") =>
        LET f == toSambaPath(runShare, runCall.path)
            g == toSambaPath(runShare, runCall.to)
        IN  /\ (f.err = "nil" /\ g.err = "nil" /\ f.share # g.share)
                  => runRet = "ErrNotImplemented" /\ runLog = <<>> /\ Mutating = {}
            /\ \A i \in 1..Len(runLog) :
                  /\ runLog[i].req = "rename"
                  /\ f.err = "nil" /\ g.err = "nil" /\ f.share = g.share
                  /\ runLog[i].share = f.share
                  /\ runLog[i].path = f.path /\ runLog[i].to = g.path

\* C12 witness: "a/x" renamed to "ab/x" with both shares mounted.
C12_Witness ==
    /\ runPhase = "done" /\ runCall.kind = "Samba.Mv"
    /\ runCall.path = <<"a", "/", "x">> /\ runCall.to = <<"a", "b", "/", "x">>
    /\ runShare = {<<"a">>, <<"a", "b">>}
    /\ runRet = "ErrNotImplemented"

(***************************************************************************)
(* Properties of Ftp.Cat.                                                  *)
(***************************************************************************)
\* Retrieve has returned an error.
RetrieveFailed == pipeRetr \notin {"", "nil"}

\* The consumer reads until the stream ends.
ReadsToEnd == pipePhase = "open" /\ pipePlan = -1

\* C13: Cat returns the stream before any byte is transferred; what the
\* consumer has read is always the beginning of the file, in order; the end
\* of stream is seen only after a transfer that succeeded and all of the
\* file; a consumer that keeps reading reaches the end of stream when the
\* transfer succeeds and an error when it fails, and so never waits forever.
C13_CatStreams ==
    /\ [][pipePhase = "idle" /\ pipePhase' = "open"
            => pipeProd' = "retrieve" /\ pipeSent' = 0 /\ pipeGot' = <<>>]_vars
    /\ [](pipeGot = SubSeq(pipeFile, 1, Len(pipeGot)))
    /\ [](pipeCons = "eof" => pipeRetr = "nil" /\ pipeGot = pipeFile)
    /\ ((ReadsToEnd /\ pipeRetr = "nil") ~> pipeCons = "eof")
    /\ ((ReadsToEnd /\ RetrieveFailed) ~> pipeCons = "error")
    /\ (ReadsToEnd ~> pipeCons \in {"eof", "error"})

\* C13 witness: the transfer failed after the consumer had read a byte, and
\* the consumer's next read returned an error.
C13_Witness ==
    /\ pipeCons = "error" /\ pipeRetr = "ErrTransfer"
    /\ pipeGot # <<>> /\ Len(pipeGot) < Len(pipeFile)

(***************************************************************************)
(* Properties of the parameters Ftp.Init dials with.                       *)
(***************************************************************************)
Given(k) == Lookup(dfIn.params, k) # ""

\* A string that spells a positive integer: digits, not all "0", after an
\* optional "+".
SpellsPositive(s) ==
    LET d == IF s # <<>> /\ Head(s) = "+" THEN Tail(s) ELSE s
    IN  /\ d # <<>>
        /\ \A i \in 1..Len(d) : d[i] \in Digits
        /\ \E i \in 1..Len(d) : d[i] # "0"

\* C14: Init dials with each field of the mapping that is given, and with
\* "localhost", "21", "anonymous" for a hostname, port, username that is
\* missing; a missing password becomes "anonymous" only when the username
\* dialled with is "anonymous"; the connection count is 5 unless "conn"
\* spells a positive integer.  The empty mapping gives all five defaults.
C14_FtpDefaults ==
    dfOut # NoDial =>
        /\ ~Given("hostname") => dfOut.host = "localhost"
        /\ Given("hostname") => dfOut.host = TrimFtpPrefix(Lookup(dfIn.params, "hostname"))
        /\ dfOut.port = IF Given("port") THEN Lookup(dfIn.params, "port") ELSE "21"
        /\ dfOut.user = IF Given("username") THEN Lookup(dfIn.params, "username")
                        ELSE "anonymous"
        /\ dfOut.password = IF Given("password") THEN Lookup(dfIn.params, "password")
                            ELSE IF dfOut.user = "anonymous" THEN "anonymous" ELSE ""
        /\ ~SpellsPositive(dfIn.conn) => dfOut.conn = 5
        /\ SpellsPositive(dfIn.conn) =>
              dfOut.conn > 0 /\ dfOut.conn = Atoi(dfIn.conn).val
        /\ (dfIn.params = {} /\ dfIn.conn = <<>>) =>
              dfOut = [host |-> "localhost", port |-> "21", user |-> "anonymous",
                       password |-> "anonymous", conn |-> 5]

\* C14 witness: Init was called with the empty mapping.
C14_Witness ==
    /\ dfIn = [params |-> {}, conn |-> <<>>]
    /\ dfOut = [host |-> "localhost", port |-> "21", user |-> "anonymous",
                password |-> "anonymous", conn |-> 5]

(***************************************************************************)
(* More properties of the Samba operations and of Touch / Save.            *)
(***************************************************************************)
\* C15: Touch does what Save does with an empty content: called with the
\* same path against the same share table and with the same results of
\* the library calls, the two send the same requests and return the same
\* value; this for the Samba and for the FTP adapter.
C15_TouchIsEmptyWrite ==
    runPhase = "done" =>
        /\ runCall.kind = "Samba.Touch"
              => SambaSave(runShare, runCall.path, <<>>, runCall.outs) = Run(runLog, runRet)
        /\ (runCall.kind = "Samba.Save" /\ runCall.content = <<>>)
              => SambaTouch(runShare, runCall.path, runCall.outs) = Run(runLog, runRet)
        /\ runCall.kind = "Ftp.Touch"
              => FtpSave(runCall.path, <<>>, runCall.outs) = Run(runLog, runRet)
        /\ (runCall.kind = "Ftp.Save" /\ runCall.content = <<>>)
              => FtpTouch(runCall.path, runCall.outs) = Run(runLog, runRet)

\* The shared taxonomy for an error of the library.
Normalized(err) ==
    IF err = "ErrPermission" THEN "ErrPermissionDenied"
    ELSE IF err = "ErrNotExist" THEN "ErrNotFound"
    ELSE err

\* The requests whose result the operation is to report: all but the Close
\* of the directory Ls has read.
Reported == {i \in 1..Len(runLog) :
                ~(runCall.kind = "Samba.Ls" /\ runLog[i].req = "close")}

\* C16: a Samba operation never returns a raw permission or not-exist
\* error; it returns the first error among its library calls in normalized
\* form (permission as ErrPermissionDenied, not-exist as ErrNotFound, any
\* other unchanged), and success when every call succeeded.
C16_SambaErrorsNormalized ==
    (runPhase = "done" /\ runCall.kind \in RunKinds \ {"Ftp.Save", "Ftp.Touch"}) =>
        /\ runRet \notin {"ErrPermission", "ErrNotExist"}
        /\ \A i \in Reported :
              (runLog[i].err # "nil" /\ \A j \in Reported : j < i => runLog[j].err = "nil")
              => runRet = Normalized(runLog[i].err)
        /\ (Reported # {} /\ \A i \in Reported : runLog[i].err = "nil") => runRet = "nil"

\* C17: once Samba.Init has returned, which it does with success whatever
\* mounts failed, the share table holds exactly the enumerated names that
\* do not end in "$" and whose mount succeeded, and no operation changes it.
C17_ShareTable ==
    /\ [](runPhase # "new" =>
            runShare = {n \in RunShareNames :
                          /\ n \in runSrv.names
                          /\ n[Len(n)] # "$"
                          /\ n \in runSrv.mounted})
    /\ [][runPhase = "new" /\ runPhase' # "new" => runPhase' = "ready"]_vars
    /\ [][runPhase # "new" => runShare' = runShare]_vars

\* C17 witness: the server enumerates a, ab and c$ and lets all but ab
\* mount; an operation has run against the table holding a alone.
C17_Witness ==
    /\ runPhase = "done"
    /\ runSrv.names = RunShareNames
    /\ runSrv.mounted = {<<"a">>, <<"c", "$">>}
    /\ runShare = {<<"a">>}

(***************************************************************************)
(* More properties of Ftp.Cat.                                             *)
(***************************************************************************)
\* C18: when Retrieve has failed, the goroutine closes the stream with an
\* error before it ends, the consumer never sees a clean end of stream,
\* and the error its read returns is the 409 "Problem" error.
C18_CatFailurePropagated ==
    /\ (RetrieveFailed /\ pipeProd \in {"close", "exit"}) => pipeRerr # ""
    /\ (RetrieveFailed /\ pipeCons # "reading") => pipeCons # "eof"
    /\ (RetrieveFailed /\ pipeCons = "error") => pipeReadErr = "Problem409"

\* C19: with the goroutine scheduled and the consumer reading to the end
\* or closing the stream early, the goroutine ends; it has then closed the
\* write side once and has no write pending; it never closes it twice.
C19_CatProducerTerminates ==
    /\ (pipePhase = "open" ~> pipeProd = "exit")
    /\ [](pipeWCloses <= 1)
    /\ [](pipeProd = "exit" => pipeWCloses = 1 /\ pipeWr = <<>>)
    /\ [][pipeProd = "exit" => pipeProd' = "exit" /\ pipeWCloses' = pipeWCloses]_vars

\* C19 witness: the consumer closed the stream while bytes were left, the
\* write of the next byte failed, and the goroutine has ended.
C19_Witness ==
    /\ pipeProd = "exit" /\ pipeCons = "closed"
    /\ pipeRetr = "ErrClosedPipe" /\ pipeSent < Len(pipeFile)
    /\ pipeWCloses = 1

(***************************************************************************)
(* More properties of Ftp.Rm.                                              *)
(***************************************************************************)
\* The path Rm is called with for an entry of the listing of `dir`.
ChildPath(dir, e) == dir \o <<e.name>> \o (IF e.dir THEN <<"/">> ELSE <<>>)

\* The requests sent between the i-th and the j-th.
Between(i, j) == {k \in 1..Len(rmLog) : i < k /\ k < j}

\* The listing that an Rmdir request, the j-th, follows: the last listing
\* of its path before it.
ListingOf(j) ==
    {i \in 1..(j - 1) :
        /\ rmLog[i].req = "list" /\ rmLog[i].path = rmLog[j].path
        /\ \A k \in Between(i, j) : ~(rmLog[k].req = "list" /\ rmLog[k].path = rmLog[j].path)}

\* C20: a path ending in "/" is listed and removed with Rmdir, any other
\* path is deleted with one Delete and never listed; no request is sent
\* twice; the Rmdir of a directory follows its listing and, for every entry
\* listed, the deletion of that entry completed without failure: one Delete
\* of the entry's path for a file, the listing and the Rmdir of the path
\* with a trailing "/" for a directory; every request for a listed entry
\* follows the listing and has the entry's name with "/" after it exactly
\* when the entry is a directory.
C20_RmPostOrder ==
    /\ \A i \in 1..Len(rmLog) :
          /\ rmLog[i].req \in {"list", "rmdir"} <=> isDirectory(rmLog[i].path)
          /\ rmLog[i].req = "delete" <=> ~isDirectory(rmLog[i].path)
          /\ \A j \in 1..Len(rmLog) :
                (rmLog[j].req = rmLog[i].req /\ rmLog[j].path = rmLog[i].path) => i = j
    /\ (rmPhase = "done" /\ ~isDirectory(rmArg))
          => Len(rmLog) = 1 /\ rmLog[1].req = "delete" /\ rmLog[1].path = rmArg
    /\ \A j \in 1..Len(rmLog) :
          rmLog[j].req = "rmdir" =>
              /\ ListingOf(j) # {}
              /\ \A i \in ListingOf(j) :
                    /\ ~GenuineFailure(rmLog[i].err)
                    /\ \A n \in 1..Len(rmLog[i].entries) :
                          LET e == rmLog[i].entries[n]
                              c == ChildPath(rmLog[j].path, e)
                          IN  /\ \E k \in Between(i, j) :
                                    /\ rmLog[k].path = c
                                    /\ rmLog[k].req = (IF e.dir THEN "rmdir" ELSE "delete")
                                    /\ ~GenuineFailure(rmLog[k].err)
                              /\ e.dir => \E k \in Between(i, j) :
                                    rmLog[k].path = c /\ rmLog[k].req = "list"
                              /\ \A k \in 1..Len(rmLog) :
                                    rmLog[k].path = c => k \in Between(i, j)
    /\ \A i \in 1..Len(rmLog) : \A n \in 1..Len(rmLog[i].entries) :
          LET c == ChildPath(rmLog[i].path, rmLog[i].entries[n])
          IN  \A k \in 1..Len(rmLog) :
                 Resolve(rmLog[k].path) = Resolve(c) => rmLog[k].path = c /\ i < k

\* C20 witness: Rm has removed a directory that held a file and a
\* directory, that one removed before it.
C20_Witness ==
    /\ rmPhase = "done"
    /\ \E i, j, k, l \in 1..Len(rmLog) :
          /\ i < j /\ j < l /\ i < k /\ k < l
          /\ rmLog[i].req = "list" /\ rmLog[i].path = rmArg /\ Len(rmLog[i].entries) = 2
          /\ rmLog[j].req = "rmdir" /\ Len(rmLog[j].path) > Len(rmArg)
          /\ rmLog[k].req = "delete"
          /\ rmLog[l].req = "rmdir" /\ rmLog[l].path = rmArg /\ rmLog[l].err = NilErr

====
